---- MODULE Spec2Model ----
(***************************************************************************)
(* Model of the chunked log indexing engine of wasm-log-explorer:          *)
(*   backend/src/core/engine.rs     LogEngine (buffer, offsets, counters)  *)
(*   backend/src/indexer/scanner.rs scan_chunk                             *)
(*   backend/src/search/matcher.rs  match_lines, contains_subslice         *)
(*   backend/src/lib.rs             the exported operations on ENGINE      *)
(*                                                                         *)
(* Rust slices are 0-based, TLA+ sequences 1-based: byte i of a slice s    *)
(* is s[i + 1] here.  Offsets, positions and line indices keep their       *)
(* 0-based Rust values.                                                    *)
(***************************************************************************)
EXTENDS Integers, Sequences, FiniteSets, TLC

VARIABLES
    buffer,                         \* LogEngine.buffer: its logical content (len bytes)
    capacity,                       \* LogEngine.buffer.capacity()
    offsets,                        \* LogEngine.offsets
    total_bytes_indexed,            \* LogEngine.total_bytes_indexed
    last_chunk_ended_with_newline,  \* LogEngine.last_chunk_ended_with_newline
    poisoned,                       \* ENGINE's RwLock: a writer panicked while holding it
    indexed,                        \* history: the bytes indexed since new()/clear(),
                                    \*   the concatenation of the chunks in order
    reserved,                       \* history: size of the latest get_buffer_pointer call
                                    \*   not yet consumed by an index_chunk, or NoReserve
    call,                           \* the most recent call and its arguments
    result,                         \* how it ended: "ok" or "panic"
    ret,                            \* what it returned
    lock,                           \* ENGINE's RwLock: who holds it
    writer,                         \* the writer thread: where it is in its call
    readers                         \* the reader threads: where each is in its query

vars == << buffer, capacity, offsets, total_bytes_indexed,
           last_chunk_ended_with_newline, poisoned, indexed, reserved,
           call, result, ret, lock, writer, readers >>

\* The threads and the lock, which move only when calls overlap (SpecLock).
threads == << lock, writer, readers >>

engine == << buffer, offsets, total_bytes_indexed, last_chunk_ended_with_newline >>

-----------------------------------------------------------------------------
(* Bounds of the model *)

MaxBytes == 3         \* bytes indexed between two clear() calls
MaxReserve == 1       \* largest size passed to get_buffer_pointer
MaxIndex == 2         \* largest start / end passed to get_line_byte_ranges
MaxSearchLen == 1     \* longest needle passed to search
MaxBase == 2          \* largest base_offset passed to scan_chunk on its own
MaxLines == 3         \* longest offsets slice passed to match_lines on its own
MaxNeedleLen == 2     \* longest needle passed to match_lines on its own
NumReaders == 2       \* reader threads beside the one writer

(* Program constants *)

NL == 10              \* b'\n'
MIN_NON_ZERO_CAP == 8 \* smallest non-empty allocation of a Vec<u8>

NoReserve == -1

Bytes == {NL, 13, 97}         \* '\n', '\r', 'a'

Min(a, b) == IF a <= b THEN a ELSE b
Max(a, b) == IF a >= b THEN a ELSE b

SeqsUpTo(S, n) == UNION { [1..k -> S] : k \in 0..n }

-----------------------------------------------------------------------------
(* indexer/scanner.rs *)

\* Mutant of push_line_starts: records the newline's own position, not the
\* byte after it.
RECURSIVE push_line_starts_at_newline(_, _, _, _)
push_line_starts_at_newline(chunk, pos, base, line_starts) ==
    IF pos >= Len(chunk) THEN line_starts
    ELSE push_line_starts_at_newline(chunk, pos + 1, base,
            IF chunk[pos + 1] = NL
            THEN Append(line_starts, base + pos)
            ELSE line_starts)

\* for pos in memchr_iter(b'\n', chunk) { line_starts.push(base + pos + 1) },
\* resumed at position pos.
RECURSIVE push_line_starts(_, _, _, _)
push_line_starts(chunk, pos, base, line_starts) ==
    IF pos >= Len(chunk) THEN line_starts
    ELSE push_line_starts(chunk, pos + 1, base,
            IF chunk[pos + 1] = NL
            THEN Append(line_starts, (base + pos) + 1)
            ELSE line_starts)

\* Mutant of scan_chunk: an empty chunk leaves the boundary state as it was.
scan_chunk_keeping_flag(chunk, base_offset, line_starts, chunk_starts_new_line) ==
    IF chunk = << >>
    THEN [line_starts |-> line_starts, ret |-> chunk_starts_new_line]
    ELSE LET first == IF chunk_starts_new_line
                      THEN Append(line_starts, base_offset)
                      ELSE line_starts
         IN  [line_starts |-> push_line_starts(chunk, 0, base_offset, first),
              ret |-> chunk[Len(chunk)] = NL]

\* scan_chunk: the line starts pushed onto line_starts, and the returned flag.
scan_chunk(chunk, base_offset, line_starts, chunk_starts_new_line) ==
    IF chunk = << >>
    THEN [line_starts |-> line_starts, ret |-> TRUE]
    ELSE LET first == IF chunk_starts_new_line
                      THEN Append(line_starts, base_offset)
                      ELSE line_starts
         IN  [line_starts |-> push_line_starts(chunk, 0, base_offset, first),
              ret |-> chunk[Len(chunk)] = NL]

-----------------------------------------------------------------------------
(* core/engine.rs *)

\* Vec::<u8>::reserve(size) as called by get_buffer_pointer: nothing when the
\* spare capacity suffices, else amortized growth to
\* max(2 * cap, len + size, MIN_NON_ZERO_CAP).
reserve(cap, len, size) ==
    IF size <= cap - len THEN cap
    ELSE Max(Max(cap * 2, len + size), MIN_NON_ZERO_CAP)

\* LogEngine::get_line_ranges, for i in start..end, resumed at line i.
RECURSIVE line_ranges_from(_, _, _, _, _)
line_ranges_from(offs, total, i, end, ranges) ==
    IF i >= end THEN ranges
    ELSE LET line_start == offs[i + 1]
             line_end == IF i + 1 < Len(offs) THEN offs[i + 2] ELSE total
         IN  line_ranges_from(offs, total, i + 1, end,
                              Append(ranges, << line_start, line_end >>))

\* Mutant of get_line_ranges: the loop stops one line early.
get_line_ranges_one_short(offs, total, start_arg, end_arg) ==
    LET end == Min(end_arg, Len(offs))
        start == Min(start_arg, end)
    IN  IF start >= end THEN << >>
        ELSE line_ranges_from(offs, total, start, end - 1, << >>)

get_line_ranges(offs, total, start_arg, end_arg) ==
    LET end == Min(end_arg, Len(offs))
        start == Min(start_arg, end)
    IN  IF start >= end THEN << >>
        ELSE line_ranges_from(offs, total, start, end, << >>)

\* LogEngine::buffer_slice
buffer_slice(buf, start, end) ==
    IF end <= Len(buf) THEN SubSeq(buf, start + 1, end) ELSE << >>

-----------------------------------------------------------------------------
(* search/matcher.rs *)

NotFound == -1

\* memchr(byte, &haystack[from..]): the first position >= from holding byte,
\* as a position of haystack, or NotFound.
RECURSIVE memchr(_, _, _)
memchr(byte, haystack, from) ==
    IF from >= Len(haystack) THEN NotFound
    ELSE IF haystack[from + 1] = byte THEN from
    ELSE memchr(byte, haystack, from + 1)

\* The while-let loop of contains_subslice, resumed at search_start.
RECURSIVE contains_from(_, _, _)
contains_from(haystack, needle, search_start) ==
    LET start == memchr(needle[1], haystack, search_start)
    IN  IF start = NotFound THEN FALSE
        ELSE IF /\ start + Len(needle) <= Len(haystack)
                /\ SubSeq(haystack, start + 1, start + Len(needle)) = needle
        THEN TRUE
        ELSE contains_from(haystack, needle, start + 1)

contains_subslice(haystack, needle) ==
    IF Len(needle) > Len(haystack) THEN FALSE
    ELSE IF Len(needle) = 0 THEN TRUE
    ELSE contains_from(haystack, needle, 0)

\* Mutant of match_windows: searches from the line's start to the end of the
\* buffer instead of to the line's end.
RECURSIVE match_windows_to_buffer_end(_, _, _, _, _)
match_windows_to_buffer_end(buf, offs, needle, line_idx, out) ==
    IF line_idx + 1 >= Len(offs) THEN out
    ELSE LET start == offs[line_idx + 1]
             end == offs[line_idx + 2]
         IN  match_windows_to_buffer_end(buf, offs, needle, line_idx + 1,
                IF /\ end <= Len(buf)
                   /\ contains_subslice(SubSeq(buf, start + 1, Len(buf)), needle)
                THEN Append(out, line_idx)
                ELSE out)

\* for (line_idx, win) in offsets.windows(2).enumerate(), resumed at line_idx.
RECURSIVE match_windows(_, _, _, _, _)
match_windows(buf, offs, needle, line_idx, out) ==
    IF line_idx + 1 >= Len(offs) THEN out
    ELSE LET start == offs[line_idx + 1]
             end == offs[line_idx + 2]
         IN  match_windows(buf, offs, needle, line_idx + 1,
                IF /\ end <= Len(buf)
                   /\ contains_subslice(SubSeq(buf, start + 1, end), needle)
                THEN Append(out, line_idx)
                ELSE out)

\* Mutant of match_lines: the last line is reported under offsets.len().
match_lines_last_off_by_one(buf, offs, needle) ==
    IF needle = << >>
    THEN [i \in 1..Len(offs) |-> i - 1]
    ELSE LET out == match_windows(buf, offs, needle, 0, << >>)
         IN  IF Len(offs) >= 2
             THEN LET last_start == offs[Len(offs)]
                  IN  IF /\ last_start < Len(buf)
                         /\ contains_subslice(
                                SubSeq(buf, last_start + 1, Len(buf)), needle)
                      THEN Append(out, Len(offs))
                      ELSE out
             ELSE IF /\ Len(offs) = 1
                     /\ Len(buf) > 0
                     /\ contains_subslice(buf, needle)
             THEN Append(out, 0)
             ELSE out

\* match_lines.  Its slices &buffer[start..end] are well formed for the
\* non-decreasing offsets the engine holds (start <= end <= buffer.len()).
match_lines(buf, offs, needle) ==
    IF needle = << >>
    THEN [i \in 1..Len(offs) |-> i - 1]
    ELSE LET out == match_windows(buf, offs, needle, 0, << >>)
         IN  IF Len(offs) >= 2
             THEN LET last_start == offs[Len(offs)]
                  IN  IF /\ last_start < Len(buf)
                         /\ contains_subslice(
                                SubSeq(buf, last_start + 1, Len(buf)), needle)
                      THEN Append(out, Len(offs) - 1)
                      ELSE out
             ELSE IF /\ Len(offs) = 1
                     /\ Len(buf) > 0
                     /\ contains_subslice(buf, needle)
             THEN Append(out, 0)
             ELSE out

-----------------------------------------------------------------------------
(* lib.rs: the exported operations.  Each takes ENGINE's lock with          *)
(* .expect("engine lock"), which panics once the lock is poisoned.         *)

Panic(c) ==
    /\ call' = c
    /\ result' = "panic"
    /\ ret' = << >>
    /\ UNCHANGED << buffer, capacity, offsets, total_bytes_indexed,
                    last_chunk_ended_with_newline, indexed, reserved, threads >>

GetBufferPointer(size) ==
    LET c == [op |-> "get_buffer_pointer", size |-> size]
    IN  IF poisoned
        THEN Panic(c) /\ UNCHANGED poisoned
        ELSE /\ capacity' = reserve(capacity, Len(buffer), size)
             /\ reserved' = size
             /\ call' = c
             /\ result' = "ok"
             /\ ret' = << >>
             /\ UNCHANGED << buffer, offsets, total_bytes_indexed,
                             last_chunk_ended_with_newline, poisoned, indexed,
                             threads >>

\* Mutant of index: advance_after_chunk is not called.
index_without_advance(offs, total, ended_with_newline, chunk) ==
    LET scan == scan_chunk(chunk, total, << >>, ended_with_newline)
    IN  [offsets |-> offs \o scan.line_starts,
         total_bytes_indexed |-> total,
         last_chunk_ended_with_newline |-> scan.ret]

\* Mutant of index: every chunk is scanned as if it began a line.
index_ignoring_boundary(offs, total, ended_with_newline, chunk) ==
    LET scan == scan_chunk(chunk, total, << >>, TRUE)
    IN  [offsets |-> offs \o scan.line_starts,
         total_bytes_indexed |-> total + Len(chunk),
         last_chunk_ended_with_newline |-> scan.ret]

\* Mutant of index: the new line starts replace the recorded ones.
index_replacing_offsets(offs, total, ended_with_newline, chunk) ==
    LET scan == scan_chunk(chunk, total, << >>, ended_with_newline)
    IN  [offsets |-> scan.line_starts,
         total_bytes_indexed |-> total + Len(chunk),
         last_chunk_ended_with_newline |-> scan.ret]

\* Mutant of index: the chunk is scanned from the position after it.
index_base_after_chunk(offs, total, ended_with_newline, chunk) ==
    LET scan == scan_chunk(chunk, total + Len(chunk), << >>, ended_with_newline)
    IN  [offsets |-> offs \o scan.line_starts,
         total_bytes_indexed |-> total + Len(chunk),
         last_chunk_ended_with_newline |-> scan.ret]

\* What index_chunk does with the chunk that append_chunk returned:
\* scan_chunk into a new Vec, append_offsets, advance_after_chunk.
index(offs, total, ended_with_newline, chunk) ==
    LET scan == scan_chunk(chunk, total, << >>, ended_with_newline)
    IN  [offsets |-> offs \o scan.line_starts,
         total_bytes_indexed |-> total + Len(chunk),
         last_chunk_ended_with_newline |-> scan.ret]

\* Mutant of IndexChunk: discard_buffer_after_indexing is not called.
IndexChunk_retaining_buffer(chunk_len) ==
    LET c == [op |-> "index_chunk", chunk_len |-> chunk_len]
        base == total_bytes_indexed
        starts_new_line == last_chunk_ended_with_newline
        \* append_chunk
        start == Len(buffer)
        new_len == start + chunk_len
    IN  IF poisoned
        THEN Panic(c) /\ UNCHANGED poisoned
        ELSE IF ~(new_len <= capacity)
        THEN \* assert! fails while the write guard is held
             Panic(c) /\ poisoned' = TRUE
        ELSE /\ total_bytes_indexed + chunk_len <= MaxBytes
             /\ \E written \in [1..chunk_len -> Bytes] :
                  LET appended == buffer \o written
                      chunk == SubSeq(appended, start + 1, new_len)
                      after == index(offsets, base, starts_new_line, chunk)
                  IN  /\ offsets' = after.offsets
                      /\ total_bytes_indexed' = after.total_bytes_indexed
                      /\ last_chunk_ended_with_newline' =
                            after.last_chunk_ended_with_newline
                      /\ indexed' = indexed \o chunk
                      /\ buffer' = appended
             /\ UNCHANGED capacity
             /\ reserved' = NoReserve
             /\ call' = c
             /\ result' = "ok"
             /\ ret' = << >>
             /\ UNCHANGED << poisoned, threads >>

\* index_chunk(chunk_len).  The chunk's bytes are whatever the region of
\* the buffer past its length holds when append_chunk extends the length
\* over it: the bytes JS wrote there, any bytes otherwise.
IndexChunk(chunk_len) ==
    LET c == [op |-> "index_chunk", chunk_len |-> chunk_len]
        base == total_bytes_indexed
        starts_new_line == last_chunk_ended_with_newline
        \* append_chunk
        start == Len(buffer)
        new_len == start + chunk_len
    IN  IF poisoned
        THEN Panic(c) /\ UNCHANGED poisoned
        ELSE IF ~(new_len <= capacity)
        THEN \* assert! fails while the write guard is held
             Panic(c) /\ poisoned' = TRUE
        ELSE /\ total_bytes_indexed + chunk_len <= MaxBytes
             /\ \E written \in [1..chunk_len -> Bytes] :
                  LET appended == buffer \o written
                      chunk == SubSeq(appended, start + 1, new_len)
                      after == index(offsets, base, starts_new_line, chunk)
                  IN  /\ offsets' = after.offsets
                      /\ total_bytes_indexed' = after.total_bytes_indexed
                      /\ last_chunk_ended_with_newline' =
                            after.last_chunk_ended_with_newline
                      /\ indexed' = indexed \o chunk
             \* discard_buffer_after_indexing
             /\ buffer' = << >>
             /\ capacity' = 0
             /\ reserved' = NoReserve
             /\ call' = c
             /\ result' = "ok"
             /\ ret' = << >>
             /\ UNCHANGED << poisoned, threads >>

\* Mutant of Clear: total_bytes_indexed is not reset.
Clear_keeps_position ==
    LET c == [op |-> "clear"]
    IN  IF poisoned
        THEN Panic(c) /\ UNCHANGED poisoned
        ELSE /\ buffer' = << >>
             /\ offsets' = << >>
             /\ last_chunk_ended_with_newline' = TRUE
             /\ indexed' = << >>
             /\ call' = c
             /\ result' = "ok"
             /\ ret' = << >>
             /\ UNCHANGED << total_bytes_indexed, capacity, poisoned, reserved,
                             threads >>

Clear ==
    LET c == [op |-> "clear"]
    IN  IF poisoned
        THEN Panic(c) /\ UNCHANGED poisoned
        ELSE /\ buffer' = << >>
             /\ offsets' = << >>
             /\ total_bytes_indexed' = 0
             /\ last_chunk_ended_with_newline' = TRUE
             /\ indexed' = << >>
             /\ call' = c
             /\ result' = "ok"
             /\ ret' = << >>
             /\ UNCHANGED << capacity, poisoned, reserved, threads >>

\* A query: takes the read lock, changes nothing, returns value.
Query(c, value) ==
    IF poisoned
    THEN Panic(c) /\ UNCHANGED poisoned
    ELSE /\ call' = c
         /\ result' = "ok"
         /\ ret' = value
         /\ UNCHANGED << buffer, capacity, offsets, total_bytes_indexed,
                         last_chunk_ended_with_newline, poisoned, indexed,
                         reserved, threads >>

GetLineCount ==
    Query([op |-> "get_line_count"], Len(offsets))

\* The (s, e) pairs cross to JS as f64, exact below 2^53.
GetLineByteRanges(start, end) ==
    Query([op |-> "get_line_byte_ranges", start |-> start, end |-> end],
          get_line_ranges(offsets, total_bytes_indexed, start, end))

Search(needle) ==
    Query([op |-> "search", needle |-> needle],
          match_lines(buffer_slice(buffer, 0, Len(buffer)), offsets, needle))

Fresh ==
    /\ buffer = << >>
    /\ capacity = 0
    /\ offsets = << >>
    /\ total_bytes_indexed = 0
    /\ last_chunk_ended_with_newline = TRUE
    /\ poisoned = FALSE
    /\ indexed = << >>
    /\ reserved = NoReserve

\* No call in progress: the lock is free and every thread is outside it.
Idle ==
    /\ lock = [writer |-> FALSE, readers |-> 0]
    /\ writer = [at |-> "idle"]
    /\ readers = [r \in 1..NumReaders |-> [at |-> "idle"]]

Init ==
    /\ Fresh
    /\ Idle
    /\ call = [op |-> "new"]
    /\ result = "ok"
    /\ ret = << >>

Next ==
    \/ \E size \in 0..MaxReserve : GetBufferPointer(size)
    \/ \E chunk_len \in 0..MaxBytes : IndexChunk(chunk_len)
    \/ Clear
    \/ GetLineCount
    \/ \E start \in 0..MaxIndex, end \in 0..MaxIndex : GetLineByteRanges(start, end)
    \/ \E needle \in SeqsUpTo(Bytes, MaxSearchLen) : Search(needle)

Spec == Init /\ [][Next]_vars

------------------------------------------------------------------------------
(* lib.rs with overlapping calls: one writer thread and NumReaders reader  *)
(* threads.  A call takes ENGINE's lock, runs the engine's methods one by   *)
(* one under the guard, and drops the guard when it returns.  A thread that *)
(* panics has ended.                                                        *)

MaxLockBytes == 2     \* bytes indexed between clears when calls overlap

calls == << call, result, ret >>

\* Mutant of can_write: the writer does not wait for the readers to leave.
can_write_beside_readers(l) == ~l.writer

\* RwLock::write returns once no writer and no reader holds the lock.
can_write(l) == ~l.writer /\ l.readers = 0

\* RwLock::read returns once no writer holds the lock.
can_read(l) == ~l.writer

\* The calls of the writer thread.
WriterCalls ==
    { [op |-> "get_buffer_pointer", size |-> size] : size \in 0..MaxReserve }
    \cup { [op |-> "index_chunk", chunk_len |-> n] : n \in 0..MaxLockBytes }
    \cup { [op |-> "clear"] }

\* The calls of a reader thread.
ReaderCalls ==
    { [op |-> "get_line_count"],
      [op |-> "get_line_byte_ranges", start |-> 0, end |-> MaxIndex],
      [op |-> "search", needle |-> << NL >>] }

\* ENGINE.write().expect("engine lock") at the head of call c.
WriteLock(c) ==
    /\ writer.at = "idle"
    /\ can_write(lock)
    /\ c.op = "index_chunk" => total_bytes_indexed + c.chunk_len <= MaxLockBytes
    /\ IF poisoned
       THEN writer' = [at |-> "panicked"] /\ UNCHANGED lock
       ELSE /\ lock' = [lock EXCEPT !.writer = TRUE]
            /\ writer' = [at |-> "locked", call |-> c]
    /\ UNCHANGED << engine, capacity, poisoned, indexed, reserved, readers,
                    calls >>

\* get_buffer_pointer under the guard.
LockedGetBufferPointer ==
    /\ writer.at = "locked"
    /\ writer.call.op = "get_buffer_pointer"
    /\ capacity' = reserve(capacity, Len(buffer), writer.call.size)
    /\ reserved' = writer.call.size
    /\ writer' = [writer EXCEPT !.at = "finished"]
    /\ UNCHANGED << engine, poisoned, indexed, lock, readers, calls >>

\* index_chunk: base, starts_new_line, and append_chunk, whose failed
\* assertion unwinds through the guard: the lock is poisoned and released.
AppendChunk ==
    /\ writer.at = "locked"
    /\ writer.call.op = "index_chunk"
    /\ LET start == Len(buffer)
           new_len == start + writer.call.chunk_len
       IN  IF ~(new_len <= capacity)
           THEN /\ poisoned' = TRUE
                /\ lock' = [lock EXCEPT !.writer = FALSE]
                /\ writer' = [at |-> "panicked"]
                /\ UNCHANGED << engine, indexed >>
           ELSE /\ \E written \in [1..writer.call.chunk_len -> Bytes] :
                     /\ buffer' = buffer \o written
                     /\ indexed' = indexed \o written
                     /\ writer' = [at |-> "appended", call |-> writer.call,
                                   base |-> total_bytes_indexed,
                                   starts_new_line |->
                                       last_chunk_ended_with_newline,
                                   chunk |-> written]
                /\ UNCHANGED << offsets, total_bytes_indexed,
                                last_chunk_ended_with_newline, poisoned, lock >>
    /\ UNCHANGED << capacity, reserved, readers, calls >>

\* index_chunk: scan_chunk and append_offsets.
AppendOffsets ==
    /\ writer.at = "appended"
    /\ LET scan == scan_chunk(writer.chunk, writer.base, << >>,
                              writer.starts_new_line)
       IN  /\ offsets' = offsets \o scan.line_starts
           /\ writer' = [at |-> "offsets_appended", call |-> writer.call,
                         ended_with_newline |-> scan.ret]
    /\ UNCHANGED << buffer, total_bytes_indexed,
                    last_chunk_ended_with_newline, capacity, poisoned,
                    indexed, reserved, lock, readers, calls >>

\* index_chunk: advance_after_chunk.
AdvanceAfterChunk ==
    /\ writer.at = "offsets_appended"
    /\ total_bytes_indexed' = total_bytes_indexed + writer.call.chunk_len
    /\ last_chunk_ended_with_newline' = writer.ended_with_newline
    /\ writer' = [at |-> "advanced", call |-> writer.call]
    /\ UNCHANGED << buffer, offsets, capacity, poisoned, indexed, reserved,
                    lock, readers, calls >>

\* index_chunk: discard_buffer_after_indexing.
DiscardBufferAfterIndexing ==
    /\ writer.at = "advanced"
    /\ buffer' = << >>
    /\ capacity' = 0
    /\ reserved' = NoReserve
    /\ writer' = [writer EXCEPT !.at = "finished"]
    /\ UNCHANGED << offsets, total_bytes_indexed,
                    last_chunk_ended_with_newline, poisoned, indexed, lock,
                    readers, calls >>

\* clear: buffer.clear() and offsets.clear().
ClearVectors ==
    /\ writer.at = "locked"
    /\ writer.call.op = "clear"
    /\ buffer' = << >>
    /\ offsets' = << >>
    /\ indexed' = << >>
    /\ writer' = [writer EXCEPT !.at = "vectors_cleared"]
    /\ UNCHANGED << total_bytes_indexed, last_chunk_ended_with_newline,
                    capacity, poisoned, reserved, lock, readers, calls >>

\* clear: total_bytes_indexed = 0 and last_chunk_ended_with_newline = true.
ClearPosition ==
    /\ writer.at = "vectors_cleared"
    /\ total_bytes_indexed' = 0
    /\ last_chunk_ended_with_newline' = TRUE
    /\ writer' = [writer EXCEPT !.at = "finished"]
    /\ UNCHANGED << buffer, offsets, capacity, poisoned, indexed, reserved,
                    lock, readers, calls >>

\* The writer's call returns and its guard is dropped.
WriteUnlock ==
    /\ writer.at = "finished"
    /\ lock' = [lock EXCEPT !.writer = FALSE]
    /\ writer' = [at |-> "idle"]
    /\ UNCHANGED << engine, capacity, poisoned, indexed, reserved, readers,
                    calls >>

\* ENGINE.read().expect("engine lock") at the head of query c of reader r.
ReadLock(r, c) ==
    /\ readers[r].at = "idle"
    /\ can_read(lock)
    /\ IF poisoned
       THEN readers' = [readers EXCEPT ![r] = [at |-> "panicked"]]
            /\ UNCHANGED lock
       ELSE /\ lock' = [lock EXCEPT !.readers = @ + 1]
            /\ readers' = [readers EXCEPT ![r] = [at |-> "locked", call |-> c]]
    /\ UNCHANGED << engine, capacity, poisoned, indexed, reserved, writer,
                    calls >>

\* What query c returns from the engine as it is.
QueryValue(c) ==
    CASE c.op = "get_line_count" -> Len(offsets)
      [] c.op = "get_line_byte_ranges" ->
            get_line_ranges(offsets, total_bytes_indexed, c.start, c.end)
      [] c.op = "search" ->
            match_lines(buffer_slice(buffer, 0, Len(buffer)), offsets, c.needle)

\* The body of reader r's query, under its guard.
ReadQuery(r) ==
    /\ readers[r].at = "locked"
    /\ readers' = [readers EXCEPT ![r] = [at |-> "answered",
                                           call |-> readers[r].call,
                                           ret |-> QueryValue(readers[r].call)]]
    /\ UNCHANGED << engine, capacity, poisoned, indexed, reserved, lock,
                    writer, calls >>

\* Reader r's query returns and its guard is dropped.
ReadUnlock(r) ==
    /\ readers[r].at = "answered"
    /\ lock' = [lock EXCEPT !.readers = @ - 1]
    /\ readers' = [readers EXCEPT ![r] = [at |-> "idle"]]
    /\ UNCHANGED << engine, capacity, poisoned, indexed, reserved, writer,
                    calls >>

NextLock ==
    \/ \E c \in WriterCalls : WriteLock(c)
    \/ LockedGetBufferPointer
    \/ AppendChunk
    \/ AppendOffsets
    \/ AdvanceAfterChunk
    \/ DiscardBufferAfterIndexing
    \/ ClearVectors
    \/ ClearPosition
    \/ WriteUnlock
    \/ \E r \in 1..NumReaders, c \in ReaderCalls : ReadLock(r, c)
    \/ \E r \in 1..NumReaders : ReadQuery(r)
    \/ \E r \in 1..NumReaders : ReadUnlock(r)

SpecLock == Init /\ [][NextLock]_vars

-----------------------------------------------------------------------------
(* scan_chunk on its own: one application to each input of a bounded set.  *)

NonDecreasing(s) == \A i \in 1..(Len(s) - 1) : s[i] <= s[i + 1]

Apply(value) ==
    /\ result = "pending"
    /\ result' = "ok"
    /\ ret' = value
    /\ UNCHANGED << buffer, capacity, offsets, total_bytes_indexed,
                    last_chunk_ended_with_newline, poisoned, indexed,
                    reserved, call, threads >>

InitScan ==
    /\ Fresh
    /\ Idle
    /\ \E chunk \in SeqsUpTo(Bytes, MaxBytes), base_offset \in 0..MaxBase,
          line_starts \in {<< >>, << 0 >>}, chunk_starts_new_line \in BOOLEAN :
          call = [op |-> "scan_chunk", chunk |-> chunk,
                  base_offset |-> base_offset, line_starts |-> line_starts,
                  chunk_starts_new_line |-> chunk_starts_new_line]
    /\ result = "pending"
    /\ ret = << >>

ScanChunk ==
    /\ call.op = "scan_chunk"
    /\ Apply(scan_chunk(call.chunk, call.base_offset, call.line_starts,
                        call.chunk_starts_new_line))

SpecScan == InitScan /\ [][ScanChunk]_vars

(* match_lines on its own.  The offsets are non-decreasing, as the engine's *)
(* are, and may lie beyond the buffer, as they do once it is discarded.     *)

InitMatch ==
    /\ Fresh
    /\ Idle
    /\ \E buf \in SeqsUpTo(Bytes, MaxBytes),
          offs \in SeqsUpTo(0..(MaxBytes + 1), MaxLines),
          needle \in SeqsUpTo(Bytes, MaxNeedleLen) :
          /\ NonDecreasing(offs)
          /\ call = [op |-> "match_lines", buffer |-> buf, offsets |-> offs,
                     needle |-> needle]
    /\ result = "pending"
    /\ ret = << >>

MatchLines ==
    /\ call.op = "match_lines"
    /\ Apply(match_lines(call.buffer, call.offsets, call.needle))

SpecMatch == InitMatch /\ [][MatchLines]_vars

------------------------------------------------------------------------------
(* lib.rs: decode_lines_from_blob and decode_utf8_line_slice.  A String is  *)
(* modelled by the sequence of its code points.                             *)

MaxSliceLen == 3      \* longest slice given to decode_utf8_line_slice
MaxBlobLen == 2       \* longest blob given to decode_lines_from_blob
MaxEnds == 2          \* most entries of line_ends

REPLACEMENT_CHARACTER == 65533      \* U+FFFD

\* Bytes given to decode_utf8_line_slice: 'a'; the lead bytes C3 (2 bytes),
\* E0, E2, ED (3 bytes), F0, F4 (4 bytes); the continuation bytes 82, 9F,
\* A9; and C0, FF, which no UTF-8 text holds.
Utf8Bytes == {97, 130, 159, 169, 192, 195, 224, 226, 237, 240, 244, 255}

\* Bytes of the blobs: 'a' and the two bytes of U+00E9.
BlobBytes == {97, 195, 169}

\* core::str::utf8_char_width
utf8_char_width(b) ==
    IF b < 128 THEN 1
    ELSE IF b \in 194..223 THEN 2
    ELSE IF b \in 224..239 THEN 3
    ELSE IF b \in 240..244 THEN 4
    ELSE 0

\* (byte as i8) < -64: a continuation byte 0x80..0xBF
is_continuation(b) == b \in 128..191

\* The second byte a 3-byte sequence with this first byte may have.
second_of_three(first, second) ==
    \/ first = 224 /\ second \in 160..191
    \/ first \in 225..236 /\ second \in 128..191
    \/ first = 237 /\ second \in 128..159
    \/ first \in 238..239 /\ second \in 128..191

\* The second byte a 4-byte sequence with this first byte may have.
second_of_four(first, second) ==
    \/ first = 240 /\ second \in 144..191
    \/ first \in 241..243 /\ second \in 128..191
    \/ first = 244 /\ second \in 128..143

\* One turn of the validation loop of std::str::from_utf8 (and of the chunk
\* iterator behind from_utf8_lossy) at byte `at` of v: a valid sequence and its
\* width, or an invalid one and the number of bytes it takes: the error
\* length, or all that is left when the input ends inside the sequence.
validate_at(v, at) ==
    LET first == v[at + 1]
        left == Len(v) - at
        byte(n) == v[at + n + 1]
        ok(w) == [valid |-> TRUE, len |-> w]
        err(n) == [valid |-> FALSE, len |-> n]
        w == utf8_char_width(first)
    IN  CASE w = 1 -> ok(1)
          [] w = 2 -> IF left < 2 THEN err(left)
                      ELSE IF ~is_continuation(byte(1)) THEN err(1)
                      ELSE ok(2)
          [] w = 3 -> IF left < 2 THEN err(left)
                      ELSE IF ~second_of_three(first, byte(1)) THEN err(1)
                      ELSE IF left < 3 THEN err(left)
                      ELSE IF ~is_continuation(byte(2)) THEN err(2)
                      ELSE ok(3)
          [] w = 4 -> IF left < 2 THEN err(left)
                      ELSE IF ~second_of_four(first, byte(1)) THEN err(1)
                      ELSE IF left < 3 THEN err(left)
                      ELSE IF ~is_continuation(byte(2)) THEN err(2)
                      ELSE IF left < 4 THEN err(left)
                      ELSE IF ~is_continuation(byte(3)) THEN err(3)
                      ELSE ok(4)
          [] OTHER -> err(1)

\* std::str::from_utf8(v), resumed at byte `at`: Ok, or Err with valid_up_to.
RECURSIVE run_utf8_validation(_, _)
run_utf8_validation(v, at) ==
    IF at >= Len(v) THEN [ok |-> TRUE, valid_up_to |-> Len(v)]
    ELSE LET seq == validate_at(v, at)
         IN  IF seq.valid THEN run_utf8_validation(v, at + seq.len)
             ELSE [ok |-> FALSE, valid_up_to |-> at]

from_utf8(v) == run_utf8_validation(v, 0)

\* The char that the valid sequence of w bytes at byte `at` of v encodes.
code_point(v, at, w) ==
    LET byte(n) == v[at + n + 1]
    IN  CASE w = 1 -> byte(0)
          [] w = 2 -> (byte(0) - 192) * 64 + (byte(1) - 128)
          [] w = 3 -> (byte(0) - 224) * 4096 + (byte(1) - 128) * 64
                        + (byte(2) - 128)
          [] w = 4 -> (byte(0) - 240) * 262144 + (byte(1) - 128) * 4096
                        + (byte(2) - 128) * 64 + (byte(3) - 128)

\* String::from_utf8_lossy(v), resumed at byte `at`: each valid sequence gives
\* its char, each invalid one gives U+FFFD.
RECURSIVE lossy_from(_, _, _)
lossy_from(v, at, text) ==
    IF at >= Len(v) THEN text
    ELSE LET seq == validate_at(v, at)
         IN  lossy_from(v, at + seq.len,
                Append(text, IF seq.valid THEN code_point(v, at, seq.len)
                             ELSE REPLACEMENT_CHARACTER))

from_utf8_lossy(v) == lossy_from(v, 0, << >>)

\* Mutant of decode_utf8_line_slice: the whole slice is decoded lossily.
decode_utf8_line_slice_untrimmed(slice) == from_utf8_lossy(slice)

\* decode_utf8_line_slice
decode_utf8_line_slice(slice) ==
    LET checked == from_utf8(slice)
        valid_len == IF checked.ok THEN Len(slice) ELSE checked.valid_up_to
    IN  from_utf8_lossy(SubSeq(slice, 1, valid_len))

\* decode_lines_from_blob, for &end in &line_ends, resumed at entry k.
\* &blob[start..end] panics when start > end, &blob[start..] when start is
\* beyond the blob.
RECURSIVE decode_lines_from(_, _, _, _, _)
decode_lines_from(blob, line_ends, k, start, arr) ==
    IF k > Len(line_ends) THEN [result |-> "ok", arr |-> arr]
    ELSE LET end == line_ends[k]
             to == IF end <= Len(blob) THEN end ELSE Len(blob)
         IN  IF start > to
             THEN [result |-> "panic", arr |-> << >>]
             ELSE decode_lines_from(blob, line_ends, k + 1, end,
                     Append(arr, decode_utf8_line_slice(
                                     SubSeq(blob, start + 1, to))))

decode_lines_from_blob(blob, line_ends) ==
    decode_lines_from(blob, line_ends, 1, 0, << >>)

(* decode_utf8_line_slice on its own *)

InitDecodeSlice ==
    /\ Fresh
    /\ Idle
    /\ \E slice \in SeqsUpTo(Utf8Bytes, MaxSliceLen) :
          call = [op |-> "decode_utf8_line_slice", slice |-> slice]
    /\ result = "pending"
    /\ ret = << >>

DecodeUtf8LineSlice ==
    /\ call.op = "decode_utf8_line_slice"
    /\ Apply(decode_utf8_line_slice(call.slice))

SpecDecodeSlice == InitDecodeSlice /\ [][DecodeUtf8LineSlice]_vars

(* decode_lines_from_blob on its own: any blob, any Uint32Array *)

InitDecode ==
    /\ Fresh
    /\ Idle
    /\ \E blob \in SeqsUpTo(BlobBytes, MaxBlobLen),
          line_ends \in SeqsUpTo(0..(MaxBlobLen + 2), MaxEnds) :
          call = [op |-> "decode_lines_from_blob", blob |-> blob,
                  line_ends |-> line_ends]
    /\ result = "pending"
    /\ ret = << >>

DecodeLinesFromBlob ==
    /\ call.op = "decode_lines_from_blob"
    /\ result = "pending"
    /\ LET decoded == decode_lines_from_blob(call.blob, call.line_ends)
       IN  /\ result' = decoded.result
           /\ ret' = decoded.arr
    /\ UNCHANGED << buffer, capacity, offsets, total_bytes_indexed,
                    last_chunk_ended_with_newline, poisoned, indexed,
                    reserved, call, threads >>

SpecDecode == InitDecode /\ [][DecodeLinesFromBlob]_vars

-----------------------------------------------------------------------------
(* Vocabulary of the properties *)

Range(s) == { s[i] : i \in DOMAIN s }

StrictlyIncreasing(s) == \A i \in 1..(Len(s) - 1) : s[i] < s[i + 1]

\* s lists the members of the set S in ascending order, each once.
IsAscendingListOf(s, S) == StrictlyIncreasing(s) /\ Range(s) = S

\* The positions p of bytes with bytes[p] = '\n'.
NewlinePositions(bytes) == { p \in 0..(Len(bytes) - 1) : bytes[p + 1] = NL }

IsCall(c, op) == c.op = op

-----------------------------------------------------------------------------
(* Properties of the engine, under Spec *)

\* C1: chunk-split invariance.  However the bytes indexed so far were cut
\* into chunks, the offsets are the ascending list of 0 and of p + 1 for
\* every newline position p of their concatenation.
C1_ChunkSplitInvariance ==
    indexed # << >> =>
        IsAscendingListOf(offsets,
            {0} \cup { p + 1 : p \in NewlinePositions(indexed) })

\* C2: in every reachable state the offsets are strictly increasing, so no
\* offset is recorded twice.
C2_OffsetsStrictlyIncreasing == StrictlyIncreasing(offsets)

\* What C3 says get_line_ranges(start, end) returns.
RangesAsSpecified(r, offs, total, start, end) ==
    LET e == Min(end, Len(offs))
        s == Min(start, e)
    IN  /\ Len(r) = e - s
        /\ \A k \in 1..Len(r) :
              LET i == s + (k - 1)
              IN  r[k] = << offs[i + 1],
                            IF i + 1 < Len(offs) THEN offs[i + 2] ELSE total >>

\* C3: get_line_ranges(start, end) returns, for every pair of indices, the
\* e - s pairs of lines s .. e - 1 where e = min(end, line_count) and
\* s = min(start, e); line i is (offsets[i], offsets[i+1]), and the last
\* indexed line ends at total_bytes_indexed.
C3_LineRangesClamped ==
    /\ \A start, end \in 0..(Len(offsets) + 1) :
          RangesAsSpecified(
              get_line_ranges(offsets, total_bytes_indexed, start, end),
              offsets, total_bytes_indexed, start, end)
    /\ (IsCall(call, "get_line_byte_ranges") /\ ~poisoned) =>
          /\ result = "ok"
          /\ RangesAsSpecified(ret, offsets, total_bytes_indexed,
                               call.start, call.end)

\* C3 witness: a query whose end index is clamped to line_count returned the
\* last indexed line, ending at total_bytes_indexed.
C3_Witness ==
    /\ IsCall(call, "get_line_byte_ranges")
    /\ result = "ok"
    /\ call.end > Len(offsets)
    /\ total_bytes_indexed > 0
    /\ Len(ret) >= 1
    /\ ret[Len(ret)] = << offsets[Len(offsets)], total_bytes_indexed >>

\* C4: index_chunk(written_len) succeeds exactly when written_len does not
\* exceed the size of the latest get_buffer_pointer call made since the
\* buffer was last discarded (stated for written_len > 0).
C4_CommitChecksLatestReserve ==
    [][ (IsCall(call', "index_chunk") /\ ~poisoned /\ call'.chunk_len > 0) =>
            (result' = "ok" <=>
                (reserved # NoReserve /\ call'.chunk_len <= reserved)) ]_vars

\* C5: a failed index_chunk leaves offsets, cumulative position and boundary
\* flag unchanged, and the operation called next (clear, line count, line
\* ranges, search, reserve) completes normally.
C5_FailedCommitRecoverable ==
    [][ /\ (IsCall(call', "index_chunk") /\ result' = "panic") =>
              UNCHANGED << offsets, total_bytes_indexed,
                           last_chunk_ended_with_newline >>
        /\ ( /\ IsCall(call, "index_chunk") /\ result = "panic"
             /\ call'.op \in {"clear", "get_line_count", "get_line_byte_ranges",
                              "search", "get_buffer_pointer"} ) =>
              result' = "ok" ]_vars

\* C6: a completed clear() leaves offsets empty, total_bytes_indexed 0, the
\* boundary flag true and the buffer empty; every query then returns what it
\* returns on a fresh engine; a second clear() changes none of these.
C6_ClearResets ==
    [][ /\ (IsCall(call', "clear") /\ result' = "ok") =>
              /\ offsets' = << >>
              /\ total_bytes_indexed' = 0
              /\ last_chunk_ended_with_newline' = TRUE
              /\ buffer' = << >>
              /\ (IsCall(call, "clear") /\ result = "ok") => UNCHANGED engine
        /\ (IsCall(call, "clear") /\ result = "ok") =>
              /\ IsCall(call', "get_line_count") => ret' = 0
              /\ IsCall(call', "get_line_byte_ranges") => ret' = << >>
              /\ IsCall(call', "search") => ret' = << >> ]_vars

\* C6 witness: clear() completed on an engine that held a reservation.
C6_Witness ==
    /\ IsCall(call, "clear")
    /\ result = "ok"
    /\ capacity > 0
    /\ offsets = << >>

\* C10: the boundary flag is true exactly when no byte has been indexed
\* since creation or the last clear, or the last byte indexed is '\n'.
C10_FlagIffLastByteNewline ==
    last_chunk_ended_with_newline <=>
        (indexed = << >> \/ indexed[Len(indexed)] = NL)

-----------------------------------------------------------------------------
(* Properties of scan_chunk, under SpecScan *)

\* C9: for a non-empty chunk scan_chunk appends base_offset iff the flag is
\* set, then base_offset + p + 1 for every newline position p in ascending
\* order, and nothing else; it returns whether the last byte is '\n'.
C9_ScanChunkExact ==
    (IsCall(call, "scan_chunk") /\ result = "ok" /\ call.chunk # << >>) =>
        LET prior == call.line_starts
            got == ret.line_starts
            appended == SubSeq(got, Len(prior) + 1, Len(got))
        IN  /\ Len(got) >= Len(prior)
            /\ SubSeq(got, 1, Len(prior)) = prior
            /\ IsAscendingListOf(appended,
                  (IF call.chunk_starts_new_line THEN {call.base_offset} ELSE {})
                  \cup { call.base_offset + p + 1 :
                            p \in NewlinePositions(call.chunk) })
            /\ ret.ret = (call.chunk[Len(call.chunk)] = NL)

\* C9 witness: a chunk holding "\r\n" that does not end in '\n' was scanned
\* with the flag clear.
C9_Witness ==
    /\ IsCall(call, "scan_chunk")
    /\ result = "ok"
    /\ ~call.chunk_starts_new_line
    /\ \E p \in 1..(Len(call.chunk) - 1) :
          call.chunk[p] = 13 /\ call.chunk[p + 1] = NL
    /\ ret.ret = FALSE
    /\ Len(ret.line_starts) = Len(call.line_starts) + 1

-----------------------------------------------------------------------------
(* Properties of match_lines, under SpecMatch *)

\* The start positions of the occurrences of needle in buf.
Occurrences(buf, needle) ==
    { p \in 0..(Len(buf) - Len(needle)) :
         SubSeq(buf, p + 1, p + Len(needle)) = needle }

\* The greatest line index i with offs[i] <= p.
LineOf(offs, p) ==
    CHOOSE i \in 0..(Len(offs) - 1) :
        /\ offs[i + 1] <= p
        /\ \A j \in 0..(Len(offs) - 1) : offs[j + 1] <= p => j <= i

\* One past the last byte of line i.
LineEnd(offs, buf, i) ==
    IF i + 1 < Len(offs) THEN offs[i + 2] ELSE Len(buf)

\* Offsets that index buf: strictly increasing, starting at 0, within buf.
Indexes(offs, buf) ==
    /\ StrictlyIncreasing(offs)
    /\ Len(offs) >= 1 => offs[1] = 0
    /\ \A i \in 1..Len(offs) : offs[i] <= Len(buf)

\* An occurrence that starts in line i and runs past its end.
Straddles(offs, buf, needle, p, i) ==
    /\ p \in Occurrences(buf, needle)
    /\ offs[i + 1] <= p
    /\ p < LineEnd(offs, buf, i)
    /\ p + Len(needle) > LineEnd(offs, buf, i)

\* C7 as stated: match_lines returns exactly the lines in which an
\* occurrence of the needle starts, wherever the occurrence ends.
C7_MatchByStartPosition ==
    ( /\ IsCall(call, "match_lines") /\ result = "ok"
      /\ call.needle # << >>
      /\ Len(call.offsets) >= 1
      /\ Indexes(call.offsets, call.buffer) ) =>
        Range(ret) = { LineOf(call.offsets, p) :
                          p \in Occurrences(call.buffer, call.needle) }

\* C7 amended: for offsets that index the buffer and a non-empty needle,
\* match_lines returns exactly the lines that hold a whole occurrence of
\* the needle between their start and their end.
C7_MatchWithinLine ==
    ( /\ IsCall(call, "match_lines") /\ result = "ok"
      /\ call.needle # << >>
      /\ Indexes(call.offsets, call.buffer) ) =>
        Range(ret) =
            { i \in 0..(Len(call.offsets) - 1) :
                \E p \in Occurrences(call.buffer, call.needle) :
                    /\ call.offsets[i + 1] <= p
                    /\ p + Len(call.needle)
                          <= LineEnd(call.offsets, call.buffer, i) }

\* C7 witness: the needle occurs whole in one line and straddles the end of
\* another, which match_lines does not report.
C7_Witness ==
    /\ IsCall(call, "match_lines")
    /\ result = "ok"
    /\ call.needle # << >>
    /\ Indexes(call.offsets, call.buffer)
    /\ ret # << >>
    /\ \E i \in 0..(Len(call.offsets) - 1) :
          /\ i \notin Range(ret)
          /\ \E p \in 0..Len(call.buffer) :
                Straddles(call.offsets, call.buffer, call.needle, p, i)

\* C8: the result of match_lines is strictly ascending, hence free of
\* duplicates, and every index in it is below offsets.length.
C8_MatchAscendingInRange ==
    (IsCall(call, "match_lines") /\ result = "ok") =>
        /\ StrictlyIncreasing(ret)
        /\ \A k \in 1..Len(ret) : ret[k] \in 0..(Len(call.offsets) - 1)

\* C8 witness: a line holding two occurrences of the needle is reported
\* once, along with another line.
C8_Witness ==
    /\ IsCall(call, "match_lines")
    /\ result = "ok"
    /\ call.needle # << >>
    /\ Indexes(call.offsets, call.buffer)
    /\ Len(ret) >= 2
    /\ \E k \in 1..Len(ret) :
          Cardinality({ p \in Occurrences(call.buffer, call.needle) :
                          /\ call.offsets[ret[k] + 1] <= p
                          /\ p + Len(call.needle)
                                <= LineEnd(call.offsets, call.buffer, ret[k]) })
             >= 2

-----------------------------------------------------------------------------
(* Further properties of the engine, under Spec *)

MaxSplitLen == 2      \* longest chunk C = A ++ B split in two for C16

Completed(c, op) == IsCall(c, op) /\ result = "ok"

IsPrefix(s, t) == Len(s) <= Len(t) /\ SubSeq(t, 1, Len(s)) = s

\* C11: total_bytes_indexed is the number of bytes of the chunks indexed
\* since creation or the last clear: a successful index_chunk(n) adds n,
\* a clear sets it to 0, and no other call changes it.
C11_PositionIsBytesIndexed ==
    /\ [](total_bytes_indexed = Len(indexed))
    /\ [][ /\ (IsCall(call', "index_chunk") /\ result' = "ok") =>
                 total_bytes_indexed' = total_bytes_indexed + call'.chunk_len
           /\ (IsCall(call', "clear") /\ result' = "ok") =>
                 total_bytes_indexed' = 0
           /\ ~(call'.op \in {"index_chunk", "clear"} /\ result' = "ok") =>
                 UNCHANGED total_bytes_indexed ]_vars

\* C11 witness: a second non-empty chunk has been indexed.
C11_Witness ==
    /\ Completed(call, "index_chunk")
    /\ call.chunk_len > 0
    /\ total_bytes_indexed > call.chunk_len

C16_SplitInsideLine ==
    call.op \in {"new", "index_chunk", "clear"} =>
    \A n \in 2..MaxSplitLen : \A C \in [1..n -> Bytes] : \A k \in 1..(n - 1) :
        C[k] # NL =>
            LET A == SubSeq(C, 1, k)
                B == SubSeq(C, k + 1, n)
                one == index(offsets, total_bytes_indexed,
                             last_chunk_ended_with_newline, C)
                afterA == index(offsets, total_bytes_indexed,
                                last_chunk_ended_with_newline, A)
                two == index(afterA.offsets, afterA.total_bytes_indexed,
                             afterA.last_chunk_ended_with_newline, B)
                added == SubSeq(two.offsets, Len(offsets) + 1, Len(two.offsets))
            IN  /\ two = one
                /\ (total_bytes_indexed + k) \notin Range(added)

\* C16 witness: "\r" and "\n" were indexed as two chunks and no line
\* starts between them.
C16_Witness ==
    /\ Completed(call, "index_chunk")
    /\ call.chunk_len = 1
    /\ Len(indexed) >= 2
    /\ indexed[Len(indexed) - 1] = 13
    /\ indexed[Len(indexed)] = NL
    /\ (total_bytes_indexed - 1) \notin Range(offsets)
    /\ total_bytes_indexed \in Range(offsets)

\* C17: between clears the offsets only grow at the end: every call but a
\* completed clear leaves the recorded offsets as a prefix of the new ones,
\* and the byte range of every line but the last stays what it was.
C17_AppendOnly ==
    [][ ~(IsCall(call', "clear") /\ result' = "ok") =>
            /\ IsPrefix(offsets, offsets')
            /\ \A i \in 0..(Len(offsets) - 2) :
                  get_line_ranges(offsets', total_bytes_indexed', i, i + 1)
                    = get_line_ranges(offsets, total_bytes_indexed, i, i + 1) ]_vars

\* C17 witness: a chunk holding a newline was indexed after two lines had
\* been recorded.
C17_Witness ==
    /\ Completed(call, "index_chunk")
    /\ call.chunk_len > 0
    /\ total_bytes_indexed > call.chunk_len
    /\ indexed[Len(indexed)] = NL
    /\ Len(offsets) >= 3

\* C18: after reserve(size) and clear(), index_chunk(n) with n > 0 and no
\* new reserve fails as it does on a fresh engine.
C18_ClearDropsReservation ==
    [][ ( /\ IsCall(call, "clear") /\ result = "ok"
          /\ IsCall(call', "index_chunk") /\ call'.chunk_len > 0 ) =>
            result' = "panic" ]_vars

\* C19: every recorded offset is at most total_bytes_indexed, the first is
\* 0, and every pair get_line_ranges returns satisfies
\* 0 <= start_byte <= end_byte <= total_bytes_indexed.
C19_OffsetsWithinPosition ==
    /\ \A i \in 1..Len(offsets) : offsets[i] <= total_bytes_indexed
    /\ offsets # << >> => offsets[1] = 0
    /\ LET r == get_line_ranges(offsets, total_bytes_indexed, 0, Len(offsets))
       IN  \A k \in 1..Len(r) :
              0 <= r[k][1] /\ r[k][1] <= r[k][2]
                           /\ r[k][2] <= total_bytes_indexed
    /\ Completed(call, "get_line_byte_ranges") =>
          \A k \in 1..Len(ret) :
              0 <= ret[k][1] /\ ret[k][1] <= ret[k][2]
                             /\ ret[k][2] <= total_bytes_indexed

\* C19 witness: a query returned two lines, the second ending at
\* total_bytes_indexed.
C19_Witness ==
    /\ Completed(call, "get_line_byte_ranges")
    /\ Len(ret) = 2
    /\ ret[1][1] = 0
    /\ ret[2][1] > 0
    /\ ret[2][2] = total_bytes_indexed

\* C20: the working buffer is empty whenever a query can run, so search
\* returns no line for a non-empty needle and every line 0 .. line_count-1
\* for the empty needle.
C20_SearchSeesNothing ==
    /\ buffer = << >>
    /\ \A needle \in SeqsUpTo(Bytes, MaxSearchLen) :
          match_lines(buffer_slice(buffer, 0, Len(buffer)), offsets, needle)
            = IF needle = << >> THEN [i \in 1..Len(offsets) |-> i - 1]
              ELSE << >>
    /\ Completed(call, "search") =>
          ret = IF call.needle = << >> THEN [i \in 1..Len(offsets) |-> i - 1]
                ELSE << >>

\* C20 witness: search returned nothing for a byte that has been indexed.
C20_Witness ==
    /\ Completed(call, "search")
    /\ call.needle # << >>
    /\ call.needle[1] \in Range(indexed)
    /\ offsets # << >>
    /\ ret = << >>

------------------------------------------------------------------------------
(* Properties of the decoder, under SpecDecode and SpecDecodeSlice *)

\* C13: decode_lines_from_blob never fails and returns one text line per
\* entry of a non-decreasing line_ends, entries beyond the blob included:
\* line i is the decoding of blob[prev_end..end] with both bounds clamped
\* to the blob length.
C13_DecodeNeverFails ==
    ( /\ IsCall(call, "decode_lines_from_blob")
      /\ result # "pending"
      /\ NonDecreasing(call.line_ends) ) =>
        LET blob == call.blob
            line_ends == call.line_ends
            clamp(n) == Min(n, Len(blob))
            prev_end(i) == IF i = 1 THEN 0 ELSE line_ends[i - 1]
        IN  /\ result = "ok"
            /\ Len(ret) = Len(line_ends)
            /\ \A i \in 1..Len(line_ends) :
                  ret[i] = decode_utf8_line_slice(
                              SubSeq(blob, clamp(prev_end(i)) + 1,
                                     clamp(line_ends[i])))

\* The UTF-8 encoding of the Unicode scalar value cp.
Encode(cp) ==
    IF cp < 128 THEN << cp >>
    ELSE IF cp < 2048 THEN << 192 + (cp \div 64), 128 + (cp % 64) >>
    ELSE IF cp < 65536
    THEN << 224 + (cp \div 4096), 128 + ((cp \div 64) % 64), 128 + (cp % 64) >>
    ELSE << 240 + (cp \div 262144), 128 + ((cp \div 4096) % 64),
            128 + ((cp \div 64) % 64), 128 + (cp % 64) >>

IsScalarValue(cp) == cp \in 0..1114111 /\ ~(cp \in 55296..57343)

\* The bytes t have the bit pattern of the first n bytes of a sequence of w
\* bytes: 0xxxxxxx, or 110xxxxx, 1110xxxx, 11110xxx followed by 10xxxxxx.
HasForm(t, n, w) ==
    /\ n \in 1..w
    /\ Len(t) = n
    /\ t[1] \in CASE w = 1 -> 0..127
                  [] w = 2 -> 192..223
                  [] w = 3 -> 224..239
                  [] w = 4 -> 240..247
    /\ \A i \in 2..n : t[i] \in 128..191

\* The payload bits of t, read as a number.
RECURSIVE Payload(_, _)
Payload(t, n) ==
    IF n = 1
    THEN (IF t[1] < 128 THEN t[1]
          ELSE IF t[1] < 224 THEN t[1] - 192
          ELSE IF t[1] < 240 THEN t[1] - 224
          ELSE t[1] - 240)
    ELSE Payload(t, n - 1) * 64 + (t[n] - 128)

\* t is the encoding of one scalar value.
EncodesScalar(t) ==
    \E w \in 1..4 :
        /\ HasForm(t, w, w)
        /\ IsScalarValue(Payload(t, w))
        /\ Encode(Payload(t, w)) = t

\* s is valid UTF-8: encodings of scalar values, one after the other.
RECURSIVE WellFormed(_)
WellFormed(s) ==
    \/ s = << >>
    \/ \E w \in 1..Min(4, Len(s)) :
          /\ EncodesScalar(SubSeq(s, 1, w))
          /\ WellFormed(SubSeq(s, w + 1, Len(s)))

\* The text that the valid UTF-8 bytes s encode.
RECURSIVE TextOf(_)
TextOf(s) ==
    IF s = << >> THEN << >>
    ELSE LET w == CHOOSE w \in 1..Min(4, Len(s)) :
                      EncodesScalar(SubSeq(s, 1, w))
         IN  << Payload(s, w) >> \o TextOf(SubSeq(s, w + 1, Len(s)))

\* The length of the longest prefix of s that is valid UTF-8.
ValidPrefixLen(s) ==
    CHOOSE n \in 0..Len(s) :
        /\ WellFormed(SubSeq(s, 1, n))
        /\ \A m \in (n + 1)..Len(s) : ~WellFormed(SubSeq(s, 1, m))

Pow64(k) == CASE k = 1 -> 64 [] k = 2 -> 4096 [] k = 3 -> 262144

\* t is an incomplete sequence: the first bytes, not all, of the encoding
\* of some scalar value.  The values whose w-byte pattern starts with t are
\* an interval; one of them must be a scalar value that takes w bytes.
IsIncompleteSequence(t) ==
    \E w \in 2..4 :
        /\ Len(t) \in 1..(w - 1)
        /\ HasForm(t, Len(t), w)
        /\ LET lo == Payload(t, Len(t)) * Pow64(w - Len(t))
               hi == lo + Pow64(w - Len(t)) - 1
               least == CASE w = 2 -> 128 [] w = 3 -> 2048 [] w = 4 -> 65536
               most == CASE w = 2 -> 2047 [] w = 3 -> 65535 [] w = 4 -> 1114111
               a == Max(lo, least)
               b == Min(hi, most)
           IN  a <= b /\ ~(55296 <= a /\ b <= 57343)

\* C14: decode_utf8_line_slice returns the text of the longest prefix of
\* the slice that is valid UTF-8: a valid slice decodes whole, and a valid
\* slice followed by an incomplete sequence decodes to what precedes that
\* sequence, with no replacement character (no slice here encodes U+FFFD).
C14_DecodesLongestValidPrefix ==
    (IsCall(call, "decode_utf8_line_slice") /\ result = "ok") =>
        LET slice == call.slice
        IN  /\ ret = TextOf(SubSeq(slice, 1, ValidPrefixLen(slice)))
            /\ WellFormed(slice) => ret = TextOf(slice)
            /\ \A k \in 0..(Len(slice) - 1) :
                  ( /\ WellFormed(SubSeq(slice, 1, k))
                    /\ IsIncompleteSequence(SubSeq(slice, k + 1, Len(slice))) )
                  => /\ ret = TextOf(SubSeq(slice, 1, k))
                     /\ REPLACEMENT_CHARACTER \notin Range(ret)

\* C14 witness: "a" followed by the first two bytes of a 3-byte sequence
\* decoded to "a".
C14_Witness ==
    /\ IsCall(call, "decode_utf8_line_slice")
    /\ result = "ok"
    /\ call.slice = << 97, 226, 130 >>
    /\ ret = << 97 >>

------------------------------------------------------------------------------
(* Properties of overlapping calls, under SpecLock *)

\* C12: no reader runs while the writer's index_chunk or clear is in
\* progress: whenever a reader is inside its query the writer is outside
\* its calls, the engine is not part-way through one (the position counts
\* every byte taken, no offset lies beyond it, the working buffer is
\* discarded), and an answer already computed is the answer of the engine
\* as it still is.
C12_QueriesSeeWholeOperations ==
    \A r \in 1..NumReaders :
        readers[r].at \in {"locked", "answered"} =>
            /\ writer.at \in {"idle", "panicked"}
            /\ ~lock.writer
            /\ total_bytes_indexed = Len(indexed)
            /\ \A i \in 1..Len(offsets) : offsets[i] <= total_bytes_indexed
            /\ buffer = << >>
            /\ readers[r].at = "answered" =>
                  readers[r].ret = QueryValue(readers[r].call)

\* C12 witness: two readers are inside their queries at once, one with
\* the ranges of two lines that the writer has indexed.
C12_Witness ==
    /\ lock.readers = 2
    /\ readers[1].at = "answered"
    /\ readers[1].call.op = "get_line_byte_ranges"
    /\ Len(readers[1].ret) = 2
    /\ readers[2].at = "locked"
    /\ total_bytes_indexed > 0

====
